---- MODULE Spec2Model ----
(***************************************************************************)
(* Model of separate_block_and_lot.py: the function split_block_lot and    *)
(* its row-wise application to the buildings table.                        *)
(*                                                                         *)
(* A Python str is modelled as a sequence of one-character strings; Python *)
(* indices are 0-based, TLA+ sequences are 1-based, and the Python         *)
(* operators below do the conversion.                                      *)
(***************************************************************************)
EXTENDS Integers, Sequences, FiniteSets, TLC

\* ---------------------------------------------------------------- bounds
MaxLen == 8     \* longest blocklot argument explored by SpecSplit
MaxRows == 3    \* largest buildings table explored by Spec

\* ------------------------------------------------------------ characters
Digits == {"1"}
Letters == {"A"}
Others == {"-"}
Chars == Digits \cup Letters \cup Others

Strings(n) == UNION {[1..k -> Chars] : k \in 0..n}

\* --------------------------------------------------- Python str operators
NoException == "None"
IndexError == "IndexError"

Min(a, b) == IF a < b THEN a ELSE b

\* mutant: an out-of-range index yields an empty character instead of raising
GetItem_silent(s, n) == IF n < Len(s) THEN s[n + 1] ELSE ""

\* s[n] for n >= 0: the character at 0-based index n, IndexError when n >= len(s)
GetItem(s, n) == IF n < Len(s) THEN s[n + 1] ELSE IndexError

\* mutant: the slice stops one character early
SliceTo_short(s, n) == SubSeq(s, 1, Min(n, Len(s)) - 1)

\* s[:n] for n >= 0: the first n characters, clamped to the string
SliceTo(s, n) == SubSeq(s, 1, Min(n, Len(s)))

\* s[n:] for n >= 0: the characters from 0-based index n on, clamped
SliceFrom(s, n) == SubSeq(s, Min(n, Len(s)) + 1, Len(s))

\* mutant: digits count as alphabetic too (isalnum)
isalnum(c) == c \in Letters \cup Digits

\* str.isalpha() of a one-character string
isalpha(c) == c \in Letters

Return(block, lot) == [exc |-> NoException, ret |-> <<block, lot>>]
Raise(e) == [exc |-> e, ret |-> <<>>]

\* ------------------------------------------------------- split_block_lot
\* mutant: the default branch loses the character at index 4
split_block_lot_drop(blocklot) ==
    IF Len(blocklot) = 6
    THEN Return(SliceTo(blocklot, 3), SliceFrom(blocklot, 3))
    ELSE IF GetItem(blocklot, 4) = IndexError
    THEN Raise(IndexError)
    ELSE IF isalpha(GetItem(blocklot, 4))
    THEN Return(SliceTo(blocklot, 5), SliceFrom(blocklot, 5))
    ELSE Return(SliceTo(blocklot, 4), SliceFrom(blocklot, 5))

\* mutant: the alphabetic test comes before the length-6 test
split_block_lot_order(blocklot) ==
    IF GetItem(blocklot, 4) = IndexError
    THEN Raise(IndexError)
    ELSE IF isalpha(GetItem(blocklot, 4))
    THEN Return(SliceTo(blocklot, 5), SliceFrom(blocklot, 5))
    ELSE IF Len(blocklot) = 6
    THEN Return(SliceTo(blocklot, 3), SliceFrom(blocklot, 3))
    ELSE Return(SliceTo(blocklot, 4), SliceFrom(blocklot, 4))

\* mutant: the alphabetic branch cuts at 4 like the default branch
split_block_lot_alpha4(blocklot) ==
    IF Len(blocklot) = 6
    THEN Return(SliceTo(blocklot, 3), SliceFrom(blocklot, 3))
    ELSE IF GetItem(blocklot, 4) = IndexError
    THEN Raise(IndexError)
    ELSE IF isalpha(GetItem(blocklot, 4))
    THEN Return(SliceTo(blocklot, 4), SliceFrom(blocklot, 4))
    ELSE Return(SliceTo(blocklot, 4), SliceFrom(blocklot, 4))

\* mutant: the default branch cuts at 3
split_block_lot_default3(blocklot) ==
    IF Len(blocklot) = 6
    THEN Return(SliceTo(blocklot, 3), SliceFrom(blocklot, 3))
    ELSE IF GetItem(blocklot, 4) = IndexError
    THEN Raise(IndexError)
    ELSE IF isalpha(GetItem(blocklot, 4))
    THEN Return(SliceTo(blocklot, 5), SliceFrom(blocklot, 5))
    ELSE Return(SliceTo(blocklot, 3), SliceFrom(blocklot, 3))

\* def split_block_lot(blocklot): the three branches in source order.  The
\* elif evaluates blocklot[4] first, which raises IndexError on a short string.
split_block_lot(blocklot) ==
    IF Len(blocklot) = 6
    THEN Return(SliceTo(blocklot, 3), SliceFrom(blocklot, 3))
    ELSE IF GetItem(blocklot, 4) = IndexError
    THEN Raise(IndexError)
    ELSE IF isalpha(GetItem(blocklot, 4))
    THEN Return(SliceTo(blocklot, 5), SliceFrom(blocklot, 5))
    ELSE Return(SliceTo(blocklot, 4), SliceFrom(blocklot, 4))

\* ------------------------------------ the two-function variant (from spec)
\* block by the same three rules
get_block_code(blocklot) ==
    IF Len(blocklot) = 6
    THEN [exc |-> NoException, ret |-> SliceTo(blocklot, 3)]
    ELSE IF GetItem(blocklot, 4) = IndexError
    THEN [exc |-> IndexError, ret |-> <<>>]
    ELSE IF isalpha(GetItem(blocklot, 4))
    THEN [exc |-> NoException, ret |-> SliceTo(blocklot, 5)]
    ELSE [exc |-> NoException, ret |-> SliceTo(blocklot, 4)]

\* s[-n:] for n > 0: the last n characters, clamped to the string
SliceLast(s, n) == SubSeq(s, Len(s) - Min(n, Len(s)) + 1, Len(s))

\* lot = last 4 characters when the last character is alphabetic, else last 3
get_lot_code(blocklot) ==
    IF Len(blocklot) = 0
    THEN [exc |-> IndexError, ret |-> <<>>]
    ELSE IF isalpha(blocklot[Len(blocklot)])
    THEN [exc |-> NoException, ret |-> SliceLast(blocklot, 4)]
    ELSE [exc |-> NoException, ret |-> SliceLast(blocklot, 3)]

\* ------------------------------------------------------------------ state
VARIABLES
    blocklot,   \* the argument of a direct call of split_block_lot
    result,     \* what that call returned or raised
    variant,    \* what the two-function variant gave for the same argument
    spc,        \* position of the direct call
    columns,    \* buildings: column labels, in order
    rows,       \* buildings: one record per row, keyed by column label
    i,          \* apply: 1-based position of the next row handed to the lambda
    results,    \* apply: the lists returned so far, one per processed row
    pc,         \* position of the script
    error,      \* the exception that ended the script, if any
    shown       \* the rows displayed by the final head(10)

splitVars == <<blocklot, result, variant, spc>>
tableVars == <<columns, rows, i, results, pc, error, shown>>
vars == <<blocklot, result, variant, spc, columns, rows, i, results, pc, error, shown>>

Pending == [exc |-> NoException, ret |-> <<>>]

\* ------------------------------------------------- the buildings table
HeadRows == 10

Code4 == <<"1", "1", "1", "1">>
Code5 == <<"1", "1", "1", "1", "1">>
Code6A == <<"1", "1", "1", "1", "A", "1">>
Code7A == <<"1", "1", "1", "1", "A", "1", "1">>
Code8A == <<"1", "1", "1", "1", "1", "1", "1", "A">>
SampleCodes == {Code4, Code5, Code6A, Code7A, Code8A}
BlIds == {<<"1">>, <<"1", "1">>}

\* buildings = pd.read_csv(...): a non-empty table with columns bl_id, block_lot
ReadCsv == UNION {[1..n -> [bl_id : BlIds, block_lot : SampleCodes]] : n \in 1..MaxRows}

InSeq(x, s) == \E k \in 1..Len(s) : s[k] = x

\* mutant: the lambda is handed the previous row
lambda_x_prev(k) == split_block_lot(rows[IF k > 1 THEN k - 1 ELSE k]["block_lot"])

\* lambda x: split_block_lot(x['block_lot']) on the row at position k
lambda_x(k) == split_block_lot(rows[k]["block_lot"])

\* mutant: each returned list is written into the table at once
apply_row_eager ==
    /\ pc = "apply"
    /\ i <= Len(rows)
    /\ LET r == lambda_x(i) IN
        IF r.exc # NoException
        THEN /\ pc' = "raised"
             /\ error' = r.exc
             /\ UNCHANGED <<columns, rows, i, results>>
        ELSE /\ results' = Append(results, r.ret)
             /\ rows' = [rows EXCEPT ![i] =
                    [c \in DOMAIN rows[i] \cup {"block", "lot"} |->
                        IF c = "block" THEN r.ret[1]
                        ELSE IF c = "lot" THEN r.ret[2] ELSE rows[i][c]]]
             /\ columns' = IF InSeq("block", columns) THEN columns
                           ELSE columns \o <<"block", "lot">>
             /\ i' = i + 1
             /\ pc' = IF i = Len(rows) THEN "setitem" ELSE "apply"
             /\ UNCHANGED error
    /\ UNCHANGED <<shown, blocklot, result, variant, spc>>

\* buildings.apply(lambda, axis=1, result_type='expand'): one row per step, in
\* table order; an exception of the lambda leaves apply and ends the script
apply_row ==
    /\ pc = "apply"
    /\ i <= Len(rows)
    /\ LET r == lambda_x(i) IN
        IF r.exc # NoException
        THEN /\ pc' = "raised"
             /\ error' = r.exc
             /\ UNCHANGED <<i, results>>
        ELSE /\ results' = Append(results, r.ret)
             /\ i' = i + 1
             /\ pc' = IF i = Len(rows) THEN "setitem" ELSE "apply"
             /\ UNCHANGED error
    /\ UNCHANGED <<columns, rows, shown, blocklot, result, variant, spc>>

\* the labels after assigning to the keys: an existing label keeps its place,
\* a new one is appended
SetLabels(cols, keys) ==
    LET Add(cs, key) == IF InSeq(key, cs) THEN cs ELSE Append(cs, key)
    IN  Add(Add(cols, keys[1]), keys[2])

\* mutant: the two expanded columns are assigned in the opposite order
setitem_swapped ==
    /\ pc = "setitem"
    /\ columns' = SetLabels(columns, <<"block", "lot">>)
    /\ rows' = [k \in 1..Len(rows) |->
            [c \in DOMAIN rows[k] \cup {"block", "lot"} |->
                IF c = "block" THEN results[k][2]
                ELSE IF c = "lot" THEN results[k][1] ELSE rows[k][c]]]
    /\ pc' = "head"
    /\ UNCHANGED <<i, results, error, shown, blocklot, result, variant, spc>>

\* buildings[['block', 'lot']] = <the expanded frame>: column 0 goes to block,
\* column 1 to lot, row by row
setitem ==
    /\ pc = "setitem"
    /\ columns' = SetLabels(columns, <<"block", "lot">>)
    /\ rows' = [k \in 1..Len(rows) |->
            [c \in DOMAIN rows[k] \cup {"block", "lot"} |->
                IF c = "block" THEN results[k][1]
                ELSE IF c = "lot" THEN results[k][2] ELSE rows[k][c]]]
    /\ pc' = "head"
    /\ UNCHANGED <<i, results, error, shown, blocklot, result, variant, spc>>

\* buildings[['block_lot', 'block', 'lot']].head(10)
head ==
    /\ pc = "head"
    /\ shown' = [k \in 1..Min(HeadRows, Len(rows)) |->
            [c \in {"block_lot", "block", "lot"} |-> rows[k][c]]]
    /\ pc' = "done"
    /\ UNCHANGED <<columns, rows, i, results, error, blocklot, result, variant, spc>>

Init ==
    /\ columns = <<"bl_id", "block_lot">>
    /\ rows \in ReadCsv
    /\ i = 1
    /\ results = <<>>
    /\ pc = "apply"
    /\ error = NoException
    /\ shown = <<>>
    /\ blocklot = <<>>
    /\ result = Pending
    /\ variant = [block |-> Pending, lot |-> Pending]
    /\ spc = "idle"

Next == apply_row \/ setitem \/ head

Spec == Init /\ [][Next]_vars

\* --------------------------------------- direct calls of split_block_lot
call_split_block_lot ==
    /\ spc = "call"
    /\ result' = split_block_lot(blocklot)
    /\ spc' = "variant"
    /\ UNCHANGED <<blocklot, variant, columns, rows, i, results, pc, error, shown>>

call_variant ==
    /\ spc = "variant"
    /\ variant' = [block |-> get_block_code(blocklot), lot |-> get_lot_code(blocklot)]
    /\ spc' = "done"
    /\ UNCHANGED <<blocklot, result, columns, rows, i, results, pc, error, shown>>

InitSplit ==
    /\ blocklot \in Strings(MaxLen)
    /\ result = Pending
    /\ variant = [block |-> Pending, lot |-> Pending]
    /\ spc = "call"
    /\ columns = <<"bl_id", "block_lot">>
    /\ rows = <<>>
    /\ i = 1
    /\ results = <<>>
    /\ pc = "idle"
    /\ error = NoException
    /\ shown = <<>>

NextSplit == call_split_block_lot \/ call_variant

SpecSplit == InitSplit /\ [][NextSplit]_vars

Called == spc \in {"variant", "done"}
Returned == Called /\ result.exc = NoException
block == result.ret[1]
lot == result.ret[2]

\* ---------------------------------------------------------------- claims
\* All formulas on direct calls are checked under SpecSplit, whose initial
\* states hold every string over Chars of length 0..MaxLen; the table formulas
\* are checked under Spec.

\* C1: whenever split_block_lot returns a pair, block + lot is the argument,
\* character for character, whichever branch produced the pair.
C1_RoundTrip == Returned => block \o lot = blocklot

C1_Witness ==
    /\ Returned
    /\ Len(blocklot) = 8
    /\ blocklot[5] \in Letters
    /\ blocklot[1] # blocklot[8]

\* C2: a 6-character argument is cut at 3 (first three, last three characters)
\* whatever its character at index 4 is.
C2_LengthSix ==
    (Called /\ Len(blocklot) = 6) =>
        result = Return(SubSeq(blocklot, 1, 3), SubSeq(blocklot, 4, 6))

C2_Witness == Called /\ Len(blocklot) = 6 /\ blocklot[5] \in Letters

\* C3: an argument of length >= 5 and # 6 whose character at index 4 is a
\* letter is cut at 5; a 5-character argument gives the whole string as block
\* and the empty string as lot.
C3_AlphaFifth ==
    (Called /\ Len(blocklot) >= 5 /\ Len(blocklot) # 6 /\ blocklot[5] \in Letters) =>
        /\ result = Return(SubSeq(blocklot, 1, 5), SubSeq(blocklot, 6, Len(blocklot)))
        /\ Len(blocklot) = 5 => (block = blocklot /\ lot = <<>>)

C3_Witness == Called /\ Len(blocklot) = 5 /\ blocklot[5] \in Letters

\* C4: an argument of length >= 5 and # 6 whose character at index 4 is not a
\* letter is cut at 4; a 5-character argument gives a 1-character lot.
C4_Default ==
    (Called /\ Len(blocklot) >= 5 /\ Len(blocklot) # 6 /\ blocklot[5] \notin Letters) =>
        /\ result = Return(SubSeq(blocklot, 1, 4), SubSeq(blocklot, 5, Len(blocklot)))
        /\ Len(blocklot) = 5 => Len(lot) = 1

C4_Witness == Called /\ Len(blocklot) = 5 /\ blocklot[5] \in Digits

\* C5: an argument shorter than 5 characters ends in IndexError and yields no
\* pair; an argument of 5 characters or more yields a pair and no error.
C5_ShortInput ==
    Called =>
        /\ Len(blocklot) < 5 => (result.exc = IndexError /\ result.ret = <<>>)
        /\ Len(blocklot) >= 5 => (result.exc = NoException /\ Len(result.ret) = 2)

C5_Witness == Called /\ Len(blocklot) = 4 /\ result.exc = IndexError

AlphaNumeric(s) == \A k \in 1..Len(s) : s[k] \in Digits \cup Letters

\* C6 as stated: for an argument of 6, 7 or 8 digits and letters the block has
\* 3 to 5 characters and the lot 3 to 4.
C6_Original ==
    (Called /\ Len(blocklot) \in 6..8 /\ AlphaNumeric(blocklot)) =>
        /\ result.exc = NoException
        /\ Len(block) \in 3..5
        /\ Len(lot) \in 3..4

\* C6 (amended): for an argument of 6, 7 or 8 digits and letters the block has
\* 3 to 5 characters and the lot 2 to 4; the lot has 2 characters exactly when
\* the argument has 7 characters and a letter at index 4.
C6_PartLengths ==
    (Called /\ Len(blocklot) \in 6..8 /\ AlphaNumeric(blocklot)) =>
        /\ result.exc = NoException
        /\ Len(block) \in 3..5
        /\ Len(lot) \in 2..4
        /\ Len(lot) = 2 <=> (Len(blocklot) = 7 /\ blocklot[5] \in Letters)

C6_Witness ==
    /\ Called
    /\ Len(blocklot) = 7
    /\ AlphaNumeric(blocklot)
    /\ blocklot[5] \in Letters
    /\ Len(lot) = 2

\* C7: the list recorded for a row is the split of that row's own block_lot,
\* so rows with equal block_lot get equal lists wherever they stand and
\* whatever the other rows hold (every ordering of every table is an initial
\* state); handing a row to the lambda changes neither the table nor the lists
\* already recorded.
C7_RowIndependence ==
    /\ [](\A k \in 1..Len(results) :
            /\ results[k] = split_block_lot(rows[k]["block_lot"]).ret
            /\ \A j \in 1..Len(results) :
                rows[j]["block_lot"] = rows[k]["block_lot"] => results[j] = results[k])
    /\ [][pc = "apply" =>
            /\ rows' = rows
            /\ SubSeq(results', 1, Len(results)) = results]_vars

C7_Witness ==
    /\ Len(results) = 3
    /\ rows[1]["block_lot"] = rows[3]["block_lot"]
    /\ rows[1]["block_lot"] # rows[2]["block_lot"]
    /\ results[1] # results[2]

Bad(k) == Len(rows[k]["block_lot"]) < 5

\* C8: the first row whose block_lot is shorter than 5 characters ends the
\* script with IndexError: no later row is handed to the lambda, nothing runs
\* afterwards, and the table has neither a block nor a lot column, not even for
\* the rows processed before.
C8_HaltOnFirstBad ==
    /\ [](pc = "raised" =>
            /\ error = IndexError
            /\ Bad(i)
            /\ \A k \in 1..(i - 1) : ~Bad(k)
            /\ Len(results) = i - 1
            /\ columns = <<"bl_id", "block_lot">>
            /\ \A k \in 1..Len(rows) : DOMAIN rows[k] = {"bl_id", "block_lot"})
    /\ [][(pc = "apply" /\ Bad(i)) =>
            (pc' = "raised" /\ UNCHANGED <<columns, rows, i, results>>)]_vars
    /\ [][pc = "apply" => UNCHANGED <<columns, rows>>]_vars
    /\ [][pc # "raised"]_vars

C8_Witness ==
    /\ pc = "raised"
    /\ i = 2
    /\ Len(rows) = 3
    /\ Len(results) = 1
    /\ ~Bad(3)

\* C9: the assignment is reached only when every block_lot has 5 characters or
\* more; it keeps the rows, their order and every existing value, and appends
\* exactly the labels block and lot, holding for each row the pair that
\* split_block_lot returns for its block_lot; no other step touches the table.
C9_Frame ==
    /\ [](pc \in {"setitem", "head", "done"} => \A k \in 1..Len(rows) : ~Bad(k))
    /\ [][pc = "setitem" =>
            /\ columns' = columns \o <<"block", "lot">>
            /\ Len(rows') = Len(rows)
            /\ \A k \in 1..Len(rows) :
                /\ DOMAIN rows'[k] = DOMAIN rows[k] \cup {"block", "lot"}
                /\ \A c \in DOMAIN rows[k] : rows'[k][c] = rows[k][c]
                /\ rows'[k]["block"] = split_block_lot(rows[k]["block_lot"]).ret[1]
                /\ rows'[k]["lot"] = split_block_lot(rows[k]["block_lot"]).ret[2]]_vars
    /\ [][pc # "setitem" => UNCHANGED <<columns, rows>>]_vars

C9_Witness ==
    /\ pc = "done"
    /\ Len(rows) = 3
    /\ columns = <<"bl_id", "block_lot", "block", "lot">>
    /\ rows[1]["block_lot"] # rows[2]["block_lot"]
    /\ rows[1]["block"] # rows[1]["lot"]

\* C10: for a 7-character argument ending in a letter whose character at index
\* 4 is not a letter, the lot of split_block_lot is not the lot of the
\* two-function variant, the two cut at different positions, and the variant's
\* block + lot is not the argument.
C10_VariantDisagrees ==
    (/\ spc = "done"
     /\ Len(blocklot) = 7
     /\ blocklot[7] \in Letters
     /\ blocklot[5] \notin Letters) =>
        /\ result.exc = NoException
        /\ variant.block.exc = NoException
        /\ variant.lot.exc = NoException
        /\ lot # variant.lot.ret
        /\ Len(block) # Len(blocklot) - Len(variant.lot.ret)
        /\ variant.block.ret \o variant.lot.ret # blocklot

C10_Witness ==
    /\ spc = "done"
    /\ Len(blocklot) = 7
    /\ blocklot[7] \in Letters
    /\ blocklot[5] \in Digits
    /\ Len(variant.lot.ret) = 4

====
